---- MODULE Spec2Model ----
(***************************************************************************)
(* Model of the signus command executor of indy-sdk                        *)
(* (src/commands/signus/mod.rs): the seven SignusCommand variants, the     *)
(* dispatch in SignusCommandExecutor::execute and the seven handlers.      *)
(*                                                                         *)
(* Rust Strings are TLA+ strings.  A Result<T, SignusError> is a record    *)
(* [ok, val, err]: Ok(v) has ok = TRUE and val = v, Err(e) has ok = FALSE  *)
(* and err = e.  A payload v is the tuple of its components: three strings *)
(* for (String, String, String), one string for String, the empty tuple    *)
(* for (), and one of "true", "false" for bool.  A completion callback is  *)
(* modelled by the list of results it has been invoked with.               *)
(***************************************************************************)
EXTENDS Integers, Sequences, FiniteSets, TLC

VARIABLES
    my_identities,     \* MyIdentityRecords held by wallet_service
    their_identities,  \* TheirIdentityRecords held by wallet_service
    ledger,            \* dids the pool_service can resolve
    resolver_calls,    \* the dids pool_service has been asked to resolve
    executed,          \* the commands passed to execute, in order
    callbacks,         \* the callback invocations, in order
    running,           \* every call of execute so far has returned
    queue,             \* the submitted commands that wait for the worker
    arrivals,          \* the submitted commands, in the order they arrived
    in_progress        \* per worker, the command it has taken off the queue

vars == <<my_identities, their_identities, ledger, resolver_calls,
          executed, callbacks, running, queue, arrivals, in_progress>>

queue_vars == <<queue, arrivals, in_progress>>

(***************************************************************************)
(* Bounds and input sets                                                   *)
(***************************************************************************)
MaxCmds == 2

WalletHandles == {1, 2}
Dids == {"D1", "D2"}
Msgs == {"hello", "hellx"}
Keys == {"K1", "K2"}

\* the command queue: its producers and its single dedicated worker
Producers == {"p1", "p2"}

\* a pool of two workers consumes the queue
WorkerPool == {1, 2}

Workers == {1}

(***************************************************************************)
(* SignusCommand: one record shape for the seven variants; a field a       *)
(* variant does not carry is "".                                           *)
(***************************************************************************)
Command(kind, wallet_handle, json, did, msg, signature) ==
    [kind |-> kind, wallet_handle |-> wallet_handle, json |-> json,
     did |-> did, msg |-> msg, signature |-> signature]

\* Result<T, SignusError>
Ok(v) == [ok |-> TRUE, val |-> v, err |-> ""]
Err(e) == [ok |-> FALSE, val |-> <<>>, err |-> e]

(***************************************************************************)
(* The cryptographic provider (trait Signus): only declared in the source. *)
(***************************************************************************)
Verkey(k) == "vk_" \o k
EncryptionKey(k) == "pk_" \o k
CryptoSign(k, msg) == "sig_" \o k \o "_" \o msg
CryptoVerify(vk, msg, sig) == \E k \in Keys : vk = Verkey(k) /\ sig = CryptoSign(k, msg)
SigningKey(k) == "sk_" \o k
PrivateEncryptionKey(k) == "xk_" \o k
SecretKeys == {SigningKey(k) : k \in Keys} \cup {PrivateEncryptionKey(k) : k \in Keys}
WellFormedSignature(sig) == \E k \in Keys, m \in Msgs : sig = CryptoSign(k, m)

(***************************************************************************)
(* DIDInfo::from_json: the did request JSON of CreateAndStoreMyDid.        *)
(***************************************************************************)
DidInfoOf ==
    [j \in {"{}", "{did:D1}", "{seed:S1}"} |->
        CASE j = "{}"        -> [did |-> "",   seed |-> "",   crypto_type |-> ""]
          [] j = "{did:D1}"  -> [did |-> "D1", seed |-> "",   crypto_type |-> ""]
          [] j = "{seed:S1}" -> [did |-> "",   seed |-> "S1", crypto_type |-> ""]]

WellFormedDidJsons == DOMAIN DidInfoOf

from_json(did_json) ==
    IF did_json \in WellFormedDidJsons
    THEN Ok(DidInfoOf[did_json])
    ELSE Err("InvalidIdentityJson")

\* the inputs the model submits
DidJsons == {"{did:D1}", "{seed:S1}", "{did:"}
IdentityJsons == {"{did:D1,verkey:vk_K1}", "{did:D1,verkey:vk_K2}", "{did:"}
ReplaceJsons == {"{}"}
Signatures == {CryptoSign("K1", "hello"), ""}
Envelopes == {""}

(***************************************************************************)
(* The handlers.  Each yields the results its callback is invoked with,    *)
(* whether the handler returned to execute, the dids it asked the          *)
(* pool_service to resolve and the identity records it leaves in the       *)
(* wallet_service.  No handler calls a service: the last three are the     *)
(* same for all of them.                                                   *)
(***************************************************************************)
Handled(results) ==
    [cbs |-> results, returned |-> TRUE, resolves |-> <<>>,
     my |-> my_identities, their |-> their_identities]

\* the parse error is dropped instead of propagated
_create_and_store_my_did_ignores_parse_error(walled_handle, did_json) ==
    Ok(<<"", "", "">>)

\* the seed is ignored: each call hands out the next fresh key
_create_and_store_my_did_ignores_seed(walled_handle, did_json) ==
    LET did_info == from_json(did_json)
    IN  IF ~did_info.ok
        THEN Err(did_info.err)
        ELSE IF Len(executed) = 0
             THEN Ok(<<"D1", Verkey("K1"), EncryptionKey("K1")>>)
             ELSE Ok(<<"D2", Verkey("K2"), EncryptionKey("K2")>>)

_create_and_store_my_did(walled_handle, did_json) ==
    LET did_info == from_json(did_json)
    IN  IF ~did_info.ok
        THEN Err(did_info.err)
        ELSE Ok(<<"", "", "">>)

\* the callback is invoked only with a success
create_and_store_my_did_cb_on_ok_only(walled_handle, did_json) ==
    LET outcome == _create_and_store_my_did(walled_handle, did_json)
    IN  Handled(IF outcome.ok THEN <<outcome>> ELSE <<>>)

\* a failure unwinds through execute instead of reaching the callback
create_and_store_my_did_unwinds(walled_handle, did_json) ==
    LET outcome == _create_and_store_my_did(walled_handle, did_json)
    IN  [Handled(IF outcome.ok THEN <<outcome>> ELSE <<>>) EXCEPT !.returned = outcome.ok]

create_and_store_my_did(walled_handle, did_json) ==
    Handled(<<_create_and_store_my_did(walled_handle, did_json)>>)

replace_keys(walled_handle, identity_json, did) ==
    Handled(<<Ok(<<"", "">>)>>)

\* a record is written to the wallet
store_their_did_writes(walled_handle, identity_json) ==
    [Handled(<<Ok(<<>>)>>) EXCEPT
        !.their = their_identities \cup {[wallet_handle |-> walled_handle,
                                          did |-> "D1", verkey |-> Verkey("K2")]}]

store_their_did(walled_handle, identity_json) ==
    Handled(<<Ok(<<>>)>>)

\* the did is looked up through the pool and cached as a counterpart
sign_resolves_did(walled_handle, did, msg) ==
    [Handled(<<Ok(<<"">>)>>) EXCEPT
        !.resolves = <<did>>,
        !.their = their_identities \cup {[wallet_handle |-> walled_handle,
                                          did |-> did, verkey |-> Verkey("K1")]}]

\* a did without a MyIdentityRecord is refused
sign_checks_did(walled_handle, did, msg) ==
    IF \E r \in my_identities : r.wallet_handle = walled_handle /\ r.did = did
    THEN Handled(<<Ok(<<"">>)>>)
    ELSE Handled(<<Err("DidNotFound")>>)

\* the private signing key is handed out in place of the signature
sign_delivers_signing_key(walled_handle, did, msg) ==
    Handled(<<Ok(<<SigningKey("K1")>>)>>)

sign(walled_handle, did, msg) ==
    Handled(<<Ok(<<"">>)>>)

verify_signature(walled_handle, did, msg, signature) ==
    Handled(<<Ok(<<"true">>)>>)

encrypt(walled_handle, did, msg) ==
    Handled(<<Ok(<<"">>)>>)

decrypt(walled_handle, did, encrypted_msg) ==
    Handled(<<Ok(<<"">>)>>)

(***************************************************************************)
(* SignusCommandExecutor::new: the three services are handed in; the       *)
(* wallet and the pool may already hold records.                           *)
(***************************************************************************)
IdentityRecord(w, d, k) == [wallet_handle |-> w, did |-> d, verkey |-> Verkey(k)]

Init ==
    /\ my_identities \in SUBSET {IdentityRecord(1, "D1", "K1")}
    /\ their_identities \in SUBSET {IdentityRecord(1, "D1", "K1")}
    /\ ledger \in SUBSET {"D1"}
    /\ resolver_calls = <<>>
    /\ executed = <<>>
    /\ callbacks = <<>>
    /\ running = TRUE
    /\ queue = <<>>
    /\ arrivals = <<>>
    /\ in_progress = [wk \in Workers |-> <<>>]

(***************************************************************************)
(* execute: the match arm of the command runs its handler to completion.   *)
(***************************************************************************)
Deliver(n, results) ==
    [i \in 1..Len(results) |-> [cmd |-> n, result |-> results[i]]]

\* the result is handed over ahead of the results already delivered
execute_delivers_out_of_order(command, handled) ==
    /\ running
    /\ executed' = Append(executed, command)
    /\ callbacks' = Deliver(Len(executed) + 1, handled.cbs) \o callbacks
    /\ running' = handled.returned
    /\ resolver_calls' = resolver_calls \o handled.resolves
    /\ my_identities' = handled.my
    /\ their_identities' = handled.their
    /\ UNCHANGED ledger

execute(command, handled) ==
    /\ running
    /\ executed' = Append(executed, command)
    /\ callbacks' = callbacks \o Deliver(Len(executed) + 1, handled.cbs)
    /\ running' = handled.returned
    /\ resolver_calls' = resolver_calls \o handled.resolves
    /\ my_identities' = handled.my
    /\ their_identities' = handled.their
    /\ UNCHANGED ledger

CreateAndStoreMyDid ==
    \E w \in WalletHandles, did_json \in DidJsons :
        /\ Len(executed) < MaxCmds
        /\ execute(Command("CreateAndStoreMyDid", w, did_json, "", "", ""),
                   create_and_store_my_did(w, did_json))
        /\ UNCHANGED queue_vars

ReplaceKeys ==
    \E w \in WalletHandles, identity_json \in ReplaceJsons, did \in Dids :
        /\ Len(executed) < MaxCmds
        /\ execute(Command("ReplaceKeys", w, identity_json, did, "", ""),
                   replace_keys(w, identity_json, did))
        /\ UNCHANGED queue_vars

StoreTheirDid ==
    \E w \in WalletHandles, identity_json \in IdentityJsons :
        /\ Len(executed) < MaxCmds
        /\ execute(Command("StoreTheirDid", w, identity_json, "", "", ""),
                   store_their_did(w, identity_json))
        /\ UNCHANGED queue_vars

Sign ==
    \E w \in WalletHandles, did \in Dids, msg \in Msgs :
        /\ Len(executed) < MaxCmds
        /\ execute(Command("Sign", w, "", did, msg, ""),
                   sign(w, did, msg))
        /\ UNCHANGED queue_vars

VerifySignature ==
    \E w \in WalletHandles, did \in Dids, msg \in Msgs, signature \in Signatures :
        /\ Len(executed) < MaxCmds
        /\ execute(Command("VerifySignature", w, "", did, msg, signature),
                   verify_signature(w, did, msg, signature))
        /\ UNCHANGED queue_vars

Encrypt ==
    \E w \in WalletHandles, did \in Dids, msg \in {"hello"} :
        /\ Len(executed) < MaxCmds
        /\ execute(Command("Encrypt", w, "", did, msg, ""),
                   encrypt(w, did, msg))
        /\ UNCHANGED queue_vars

Decrypt ==
    \E w \in WalletHandles, did \in Dids, encrypted_msg \in Envelopes :
        /\ Len(executed) < MaxCmds
        /\ execute(Command("Decrypt", w, "", did, encrypted_msg, ""),
                   decrypt(w, did, encrypted_msg))
        /\ UNCHANGED queue_vars

Next ==
    \/ CreateAndStoreMyDid
    \/ ReplaceKeys
    \/ StoreTheirDid
    \/ Sign
    \/ VerifySignature
    \/ Encrypt
    \/ Decrypt

Spec == Init /\ [][Next]_vars

(***************************************************************************)
(* The command queue in front of execute: producers submit commands        *)
(* without waiting, a worker takes the command at the head of the queue    *)
(* and passes it to execute.                                               *)
(***************************************************************************)
QueueCommands ==
    {Command("CreateAndStoreMyDid", 1, "{did:", "", "", ""),
     Command("ReplaceKeys", 1, "{}", "D1", "", ""),
     Command("StoreTheirDid", 1, "{did:D1,verkey:vk_K1}", "", "", ""),
     Command("Sign", 1, "", "D1", "hello", ""),
     Command("VerifySignature", 1, "", "D1", "hello", ""),
     Command("Encrypt", 1, "", "D1", "hello", ""),
     Command("Decrypt", 1, "", "D1", "", "")}

\* execute: match command
handle(command) ==
    CASE command.kind = "CreateAndStoreMyDid" ->
            create_and_store_my_did(command.wallet_handle, command.json)
      [] command.kind = "ReplaceKeys" ->
            replace_keys(command.wallet_handle, command.json, command.did)
      [] command.kind = "StoreTheirDid" ->
            store_their_did(command.wallet_handle, command.json)
      [] command.kind = "Sign" ->
            sign(command.wallet_handle, command.did, command.msg)
      [] command.kind = "VerifySignature" ->
            verify_signature(command.wallet_handle, command.did, command.msg,
                             command.signature)
      [] command.kind = "Encrypt" ->
            encrypt(command.wallet_handle, command.did, command.msg)
      [] command.kind = "Decrypt" ->
            decrypt(command.wallet_handle, command.did, command.msg)

Submit ==
    \E p \in Producers, c \in QueueCommands :
        /\ Len(arrivals) < MaxCmds
        /\ queue' = Append(queue, [producer |-> p, request |-> c])
        /\ arrivals' = Append(arrivals, [producer |-> p, request |-> c])
        /\ UNCHANGED <<my_identities, their_identities, ledger, resolver_calls,
                       executed, callbacks, running, in_progress>>

Dequeue ==
    \E wk \in Workers :
        /\ in_progress[wk] = <<>>
        /\ queue # <<>>
        /\ in_progress' = [in_progress EXCEPT ![wk] = <<Head(queue).request>>]
        /\ queue' = Tail(queue)
        /\ UNCHANGED <<my_identities, their_identities, ledger, resolver_calls,
                       executed, callbacks, running, arrivals>>

Run ==
    \E wk \in Workers :
        /\ in_progress[wk] # <<>>
        /\ execute(in_progress[wk][1], handle(in_progress[wk][1]))
        /\ in_progress' = [in_progress EXCEPT ![wk] = <<>>]
        /\ UNCHANGED <<queue, arrivals>>

QueueNext ==
    \/ Submit
    \/ Dequeue
    \/ Run

QueueSpec == Init /\ [][QueueNext]_vars

(***************************************************************************)
(* Vocabulary of the properties                                            *)
(***************************************************************************)
IsOk(r, v) == r.ok /\ r.val = v
IsErr(r, e) == ~r.ok /\ r.err = e

\* the callback invocations of the n-th command
CallbacksOf(n) == {j \in 1..Len(callbacks) : callbacks[j].cmd = n}
ResultOf(n) == callbacks[CHOOSE j \in CallbacksOf(n) : TRUE].result

\* the command most recently passed to execute, and what it delivered
HasLast == Len(executed) > 0
Last == executed[Len(executed)]
LastDelivered == CallbacksOf(Len(executed)) # {}
LastResult == ResultOf(Len(executed))

\* a step of execute: the command it runs and the results it delivers
Executes(kind) ==
    /\ Len(executed') = Len(executed) + 1
    /\ executed'[Len(executed')].kind = kind
Running == executed'[Len(executed')]
Delivered == SubSeq(callbacks', Len(callbacks) + 1, Len(callbacks'))

MyRecords(w, d) == {r \in my_identities : r.wallet_handle = w /\ r.did = d}
TheirRecords(w, d) == {r \in their_identities : r.wallet_handle = w /\ r.did = d}

\* the Identity/TheirDid JSON of StoreTheirDid
TheirDidOf ==
    [j \in {"{did:D1,verkey:vk_K1}", "{did:D1,verkey:vk_K2}"} |->
        IF j = "{did:D1,verkey:vk_K1}"
        THEN [did |-> "D1", verkey |-> "vk_K1"]
        ELSE [did |-> "D1", verkey |-> "vk_K2"]]

(***************************************************************************)
(* C1: every command passed to execute, of each of the seven variants, has *)
(* had its completion callback invoked exactly once, whether its operation *)
(* succeeded or failed.                                                    *)
(***************************************************************************)
C1_ExactlyOnceCallback ==
    \A n \in 1..Len(executed) : Cardinality(CallbacksOf(n)) = 1

\* a failed command and a successful one have both been executed
C1_Witness ==
    /\ Len(executed) >= 2
    /\ \E n \in 1..Len(executed) : CallbacksOf(n) # {} /\ ~ResultOf(n).ok
    /\ \E n \in 1..Len(executed) : CallbacksOf(n) # {} /\ ResultOf(n).ok

(***************************************************************************)
(* C2: a Sign that follows a successful ReplaceKeys on the same (wallet    *)
(* handle, did) signs with the new key pair: its signature verifies under  *)
(* the verification key ReplaceKeys returned and under no other key.       *)
(***************************************************************************)
C2_SignObservesReplacedKey ==
    (/\ Len(executed) >= 2
     /\ Last.kind = "Sign"
     /\ executed[Len(executed) - 1].kind = "ReplaceKeys"
     /\ executed[Len(executed) - 1].wallet_handle = Last.wallet_handle
     /\ executed[Len(executed) - 1].did = Last.did
     /\ CallbacksOf(Len(executed) - 1) # {}
     /\ ResultOf(Len(executed) - 1).ok)
    => /\ LastDelivered
       /\ LastResult.ok
       /\ LET new_verkey == ResultOf(Len(executed) - 1).val[1]
              signature == LastResult.val[1]
          IN  /\ CryptoVerify(new_verkey, Last.msg, signature)
              /\ \A k \in Keys :
                    Verkey(k) # new_verkey
                    => ~CryptoVerify(Verkey(k), Last.msg, signature)

(***************************************************************************)
(* C3: VerifySignature delivers success(true) for a signature that Sign    *)
(* produced for the same did and message, and success(false) for a         *)
(* well-formed signature that does not match the message.                  *)
(***************************************************************************)
C3_VerifyTrueOrFalse ==
    (HasLast /\ Last.kind = "VerifySignature")
    => /\ (\E n \in 1..(Len(executed) - 1) :
              /\ executed[n].kind = "Sign"
              /\ executed[n].wallet_handle = Last.wallet_handle
              /\ executed[n].did = Last.did
              /\ executed[n].msg = Last.msg
              /\ CallbacksOf(n) # {}
              /\ IsOk(ResultOf(n), <<Last.signature>>))
          => (LastDelivered /\ IsOk(LastResult, <<"true">>))
       /\ (/\ WellFormedSignature(Last.signature)
           /\ \A k \in Keys : Last.signature # CryptoSign(k, Last.msg))
          => (LastDelivered /\ IsOk(LastResult, <<"false">>))

(***************************************************************************)
(* C4: CreateAndStoreMyDid for a did that already has a MyIdentityRecord   *)
(* in the wallet delivers failure DidAlreadyExists and leaves the records  *)
(* unchanged; for a did with no record it commits one new MyIdentityRecord *)
(* and delivers success with (did, verification key, encryption key).      *)
(***************************************************************************)
C4_Created(w) ==
    \E d \in Dids, k \in Keys :
        /\ MyRecords(w, d) = {}
        /\ my_identities' = my_identities \cup {IdentityRecord(w, d, k)}
        /\ Len(Delivered) = 1
        /\ IsOk(Delivered[1].result, <<d, Verkey(k), EncryptionKey(k)>>)

C4_AlreadyExists(w) ==
    /\ \E d \in Dids : MyRecords(w, d) # {}
    /\ my_identities' = my_identities
    /\ Len(Delivered) = 1
    /\ IsErr(Delivered[1].result, "DidAlreadyExists")

C4_CreateOrAlreadyExists ==
    [][(/\ Executes("CreateAndStoreMyDid")
        /\ Running.json \in WellFormedDidJsons)
       => LET w == Running.wallet_handle
              d == DidInfoOf[Running.json].did
          IN  /\ C4_Created(w) \/ C4_AlreadyExists(w)
              /\ (d # "" /\ MyRecords(w, d) # {}) => C4_AlreadyExists(w)
              /\ (d # "" /\ MyRecords(w, d) = {}) => C4_Created(w)]_vars

(***************************************************************************)
(* C5: when the did request JSON of CreateAndStoreMyDid cannot be parsed,  *)
(* the callback receives failure InvalidIdentityJson and the identity      *)
(* records of every wallet are the same before and after the command.      *)
(***************************************************************************)
C5_ParseFailure ==
    [][(/\ Executes("CreateAndStoreMyDid")
        /\ Running.json \notin WellFormedDidJsons)
       => /\ Len(Delivered) = 1
          /\ Delivered[1].cmd = Len(executed')
          /\ IsErr(Delivered[1].result, "InvalidIdentityJson")
          /\ my_identities' = my_identities
          /\ their_identities' = their_identities]_vars

\* an unparsable request has been executed and has delivered the failure
C5_Witness ==
    /\ HasLast
    /\ Last.kind = "CreateAndStoreMyDid"
    /\ Last.json \notin WellFormedDidJsons
    /\ LastDelivered
    /\ IsErr(LastResult, "InvalidIdentityJson")

(***************************************************************************)
(* C6: after two StoreTheirDid on the same wallet with the same did and    *)
(* differing verkeys there is exactly one TheirIdentityRecord for the did, *)
(* holding the verkey of the later call.                                   *)
(***************************************************************************)
C6_UpsertKeepsLatest ==
    (/\ HasLast
     /\ Last.kind = "StoreTheirDid"
     /\ Last.json \in DOMAIN TheirDidOf
     /\ \E n \in 1..(Len(executed) - 1) :
            /\ executed[n].kind = "StoreTheirDid"
            /\ executed[n].wallet_handle = Last.wallet_handle
            /\ executed[n].json \in DOMAIN TheirDidOf
            /\ TheirDidOf[executed[n].json].did = TheirDidOf[Last.json].did
            /\ TheirDidOf[executed[n].json].verkey # TheirDidOf[Last.json].verkey)
    => TheirRecords(Last.wallet_handle, TheirDidOf[Last.json].did)
         = {[wallet_handle |-> Last.wallet_handle,
             did |-> TheirDidOf[Last.json].did,
             verkey |-> TheirDidOf[Last.json].verkey]}

(***************************************************************************)
(* C7: Sign on a (wallet handle, did) that has no MyIdentityRecord         *)
(* delivers failure DidNotFound, never a success carrying a signature.     *)
(***************************************************************************)
C7_SignUnknownDid ==
    (/\ HasLast
     /\ Last.kind = "Sign"
     /\ MyRecords(Last.wallet_handle, Last.did) = {})
    => (LastDelivered /\ IsErr(LastResult, "DidNotFound"))

(***************************************************************************)
(* C8: ReplaceKeys on a (wallet handle, did) that has no MyIdentityRecord  *)
(* delivers failure DidNotFound and creates no record; on an existing      *)
(* record it swaps the key material in one step: the did keeps exactly one *)
(* record, which holds the returned verification key.                      *)
(***************************************************************************)
C8_ReplaceKeys ==
    [][Executes("ReplaceKeys")
       => LET w == Running.wallet_handle
              d == Running.did
          IN  IF MyRecords(w, d) = {}
              THEN /\ Len(Delivered) = 1
                   /\ IsErr(Delivered[1].result, "DidNotFound")
                   /\ my_identities' = my_identities
              ELSE \E k \in Keys :
                   /\ my_identities' =
                        (my_identities \ MyRecords(w, d)) \cup {IdentityRecord(w, d, k)}
                   /\ Len(Delivered) = 1
                   /\ IsOk(Delivered[1].result, <<Verkey(k), EncryptionKey(k)>>)]_vars

(***************************************************************************)
(* C9: VerifySignature for a did that has no TheirIdentityRecord in the    *)
(* wallet and that the resolver does not find delivers failure UnknownDid. *)
(***************************************************************************)
C9_VerifyUnknownDid ==
    (/\ HasLast
     /\ Last.kind = "VerifySignature"
     /\ TheirRecords(Last.wallet_handle, Last.did) = {}
     /\ Last.did \notin ledger)
    => (LastDelivered /\ IsErr(LastResult, "UnknownDid"))

(***************************************************************************)
(* C10: a command whose operation fails delivers the failure through its   *)
(* own callback and execute returns: every command executed after it is    *)
(* processed and gets its callback.                                        *)
(***************************************************************************)
C10_FailureDoesNotStopExecutor ==
    /\ running
    /\ \A n \in 1..Len(executed) :
          (executed[n].kind = "CreateAndStoreMyDid"
              /\ executed[n].json \notin WellFormedDidJsons)
          => /\ \E j \in CallbacksOf(n) : ~callbacks[j].result.ok
             /\ \A m \in (n + 1)..Len(executed) : CallbacksOf(m) # {}

\* a command has been executed, with its callback, after a failed one
C10_Witness ==
    \E n \in 1..Len(executed) :
        /\ CallbacksOf(n) # {}
        /\ ~ResultOf(n).ok
        /\ n < Len(executed)
        /\ CallbacksOf(n + 1) # {}
        /\ running

(***************************************************************************)
(* C11: the operations being synchronous, completion callbacks fire in the *)
(* order of their commands: for a command executed before another one,     *)
(* its callback is invoked before the callback of the other.               *)
(***************************************************************************)
C11_CallbacksInCommandOrder ==
    \A n \in 1..Len(executed), m \in 1..Len(executed) :
        n < m => \A i \in CallbacksOf(n), j \in CallbacksOf(m) : i < j

\* two commands have been executed and both callbacks have fired
C11_Witness ==
    /\ Len(executed) >= 2
    /\ CallbacksOf(1) # {}
    /\ CallbacksOf(2) # {}
    /\ executed[1].kind # executed[2].kind

(***************************************************************************)
(* C12: commands submitted by several producers are executed by a single   *)
(* worker one at a time and in arrival order: no two commands are in       *)
(* execution together, and the n-th command executed is the n-th command   *)
(* that arrived.                                                           *)
(***************************************************************************)
C12_OneAtATimeInArrivalOrder ==
    /\ Cardinality({wk \in Workers : in_progress[wk] # <<>>}) <= 1
    /\ Len(executed) <= Len(arrivals)
    /\ \A n \in 1..Len(executed) : executed[n] = arrivals[n].request

\* different commands of two producers have arrived and both have run
C12_Witness ==
    /\ Len(executed) >= 2
    /\ arrivals[1].producer # arrivals[2].producer
    /\ arrivals[1].request # arrivals[2].request

(***************************************************************************)
(* C13: with an own identity and a stored counterpart identity in the      *)
(* wallet, Decrypt applied to the envelope that an Encrypt delivered for a *)
(* message m delivers success with exactly m.                              *)
(***************************************************************************)
C13_EncryptDecryptRoundTrip ==
    (HasLast /\ Last.kind = "Decrypt")
    => \A n \in 1..(Len(executed) - 1) :
          (/\ executed[n].kind = "Encrypt"
           /\ executed[n].wallet_handle = Last.wallet_handle
           /\ executed[n].did = Last.did
           /\ MyRecords(Last.wallet_handle, Last.did) # {}
           /\ TheirRecords(Last.wallet_handle, Last.did) # {}
           /\ CallbacksOf(n) # {}
           /\ IsOk(ResultOf(n), <<Last.msg>>))
          => (LastDelivered /\ IsOk(LastResult, <<executed[n].msg>>))

(***************************************************************************)
(* C14: two CreateAndStoreMyDid whose requests carry the same seed deliver *)
(* the same (did, verification key) pair, whatever was executed before     *)
(* each of them.                                                           *)
(***************************************************************************)
SeededCreate(n) ==
    /\ executed[n].kind = "CreateAndStoreMyDid"
    /\ executed[n].json \in WellFormedDidJsons
    /\ DidInfoOf[executed[n].json].seed # ""
    /\ CallbacksOf(n) # {}
    /\ ResultOf(n).ok

C15_NoSecretInCallback ==
    \A j \in 1..Len(callbacks) :
        /\ callbacks[j].result.err \notin SecretKeys
        /\ \A i \in 1..Len(callbacks[j].result.val) :
              callbacks[j].result.val[i] \notin SecretKeys

\* a Sign on a did that has a key pair in the wallet has delivered a payload
C15_Witness ==
    /\ HasLast
    /\ Last.kind = "Sign"
    /\ MyRecords(Last.wallet_handle, Last.did) # {}
    /\ LastDelivered
    /\ LastResult.ok
    /\ Len(LastResult.val) = 1

(***************************************************************************)
(* C16: an identity record is absent or active; a successful               *)
(* CreateAndStoreMyDid moves the record of the did it returns from absent  *)
(* to active, ReplaceKeys keeps an active record active, and no command    *)
(* moves an active record back to absent.                                  *)
(***************************************************************************)
ActiveAfter(w, d) == \E r \in my_identities' : r.wallet_handle = w /\ r.did = d

C16_AbsentToActive ==
    [][/\ (/\ Executes("CreateAndStoreMyDid")
           /\ Len(Delivered) = 1
           /\ Delivered[1].result.ok)
          => /\ MyRecords(Running.wallet_handle, Delivered[1].result.val[1]) = {}
             /\ ActiveAfter(Running.wallet_handle, Delivered[1].result.val[1])
       /\ (/\ Executes("ReplaceKeys")
           /\ MyRecords(Running.wallet_handle, Running.did) # {})
          => ActiveAfter(Running.wallet_handle, Running.did)
       /\ \A r \in my_identities : ActiveAfter(r.wallet_handle, r.did)]_vars

(***************************************************************************)
(* C17: executing a Sign command asks nothing of the pool_service and      *)
(* leaves its state and every TheirIdentityRecord unchanged.               *)
(***************************************************************************)
C17_SignLeavesResolverAlone ==
    [][Executes("Sign")
       => /\ resolver_calls' = resolver_calls
          /\ ledger' = ledger
          /\ their_identities' = their_identities]_vars

\* a Sign has run on a did the wallet holds no counterpart record for
C17_Witness ==
    /\ HasLast
    /\ Last.kind = "Sign"
    /\ LastDelivered
    /\ TheirRecords(Last.wallet_handle, Last.did) = {}
    /\ their_identities # {}
    /\ resolver_calls = <<>>

(***************************************************************************)
(* C18: executing any of the seven commands leaves the services of the     *)
(* executor unchanged: the identity records of the wallet and the state of *)
(* the pool after a command are those before it.                           *)
(***************************************************************************)
C18_ServicesUnchanged ==
    [][/\ my_identities' = my_identities
       /\ their_identities' = their_identities
       /\ ledger' = ledger
       /\ resolver_calls' = resolver_calls]_vars

\* a CreateAndStoreMyDid and a StoreTheirDid with parsable requests have run
C18_Witness ==
    /\ \E n \in 1..Len(executed) :
          /\ executed[n].kind = "CreateAndStoreMyDid"
          /\ executed[n].json \in WellFormedDidJsons
          /\ CallbacksOf(n) # {}
    /\ \E n \in 1..Len(executed) :
          /\ executed[n].kind = "StoreTheirDid"
          /\ executed[n].json \in DOMAIN TheirDidOf
          /\ CallbacksOf(n) # {}

(***************************************************************************)
(* C19: a failure reaches a callback only from CreateAndStoreMyDid and     *)
(* only when its did JSON does not parse; the other six commands deliver   *)
(* success for every wallet handle and parameter, after any history.       *)
(***************************************************************************)
C19_OnlyParseFailureFails ==
    \A j \in 1..Len(callbacks) :
        IF /\ executed[callbacks[j].cmd].kind = "CreateAndStoreMyDid"
           /\ executed[callbacks[j].cmd].json \notin WellFormedDidJsons
        THEN ~callbacks[j].result.ok
        ELSE callbacks[j].result.ok

\* after a failed command, a Sign on a did without a record has succeeded
C19_Witness ==
    /\ Len(executed) >= 2
    /\ CallbacksOf(1) # {}
    /\ ~ResultOf(1).ok
    /\ Last.kind = "Sign"
    /\ MyRecords(Last.wallet_handle, Last.did) = {}
    /\ LastDelivered
    /\ LastResult.ok

====
